---- MODULE Spec2Model ----
(***************************************************************************)
(* A model of gosec's Analyzer (analyzer.go): LoadRules, Process, ignore,  *)
(* Visit, Report and Reset.  Process is split at the calls ast.Walk makes  *)
(* to Visit, so that the suppression stack can be observed at every node.  *)
(* Strings are sequences of one-character strings, so that the regular     *)
(* expression of ignore and the Split/Atoi of Process are computed as the  *)
(* code computes them.                                                     *)
(***************************************************************************)
EXTENDS Naturals, Integers, Sequences, FiniteSets, TLC

VARIABLES
    config,       \* Analyzer.config: the global nosec option of the configuration
    ignoreNosec,  \* Analyzer.ignoreNosec
    ruleset,      \* Analyzer.ruleset: node category -> sequence of rule ids
    context,      \* Analyzer.context: [Root, Ignores]
    issues,       \* Analyzer.issues: sequence of [rule, node]
    stats,        \* Analyzer.stats: the live Metrics object
    errors,       \* Analyzer.errors: file path -> sequence of Error
    report,       \* what the last Report call returned
    pc,           \* position inside Process ("idle" outside of it)
    paths,        \* Process: package paths still to load
    pkgs,         \* Process: packages loaded so far
    files,        \* Process: files still to walk
    todo,         \* ast.Walk: pending Visit calls of the current file (Nil = Visit(nil))
    ret,          \* result of the last Process call
    loads,        \* number of LoadRules calls made
    calls,        \* number of Process calls made
    callPaths,    \* the packagePaths argument of the current/last Process call
    issues0,      \* issues when the current/last Process call started
    stats0,       \* stats when the current/last Process call started
    errors0,      \* errors when the current/last Process call started
    lastOp,       \* the method of the Analyzer called last
    ignored,      \* the rules ignore returned in the last Visit of a node
    walked,       \* nodes entered (Visit returned the visitor) in the current/last call
    visit,        \* the last Visit call, if for a node: [node, pruned]
    dispatched,   \* rule.Match invocations of the last Visit: <<[rule, issue, err]>>
    ruleErrors    \* "Rule error" lines logged in the current/last call

vars == <<config, ignoreNosec, ruleset, context, issues, stats, errors, report, pc,
          paths, pkgs, files, todo, ret, loads, calls, callPaths, issues0, stats0,
          errors0, lastOp, ignored, walked, visit, dispatched, ruleErrors>>

(***************************************************************************)
(* Bounds of the exploration.                                              *)
(***************************************************************************)
MaxCalls == 2
MaxLoads == 1

(***************************************************************************)
(* Strings.                                                                *)
(***************************************************************************)
Digits == <<"0", "1", "2", "3", "4", "5", "6", "7", "8", "9">>

IsDigit(c) == \E i \in 1..Len(Digits) : Digits[i] = c

DigitVal(c) == (CHOOSE i \in 1..Len(Digits) : Digits[i] = c) - 1

Alphabet == <<" ", "#", ":">> \o Digits \o
            <<"G", "S", "a", "b", "c", "e", "m", "n", "o", "s">>

Ord(c) == CHOOSE i \in 1..Len(Alphabet) : Alphabet[i] = c

\* s < t in Go's string order (bytewise lexicographic)
RECURSIVE StrLess(_, _)
StrLess(s, t) ==
    IF t = <<>> THEN FALSE
    ELSE IF s = <<>> THEN TRUE
    ELSE IF Head(s) # Head(t) THEN Ord(Head(s)) < Ord(Head(t))
    ELSE StrLess(Tail(s), Tail(t))

\* strings.Contains(s, sub)
Contains(s, sub) ==
    \E i \in 1..(Len(s) + 1) :
        /\ i + Len(sub) - 1 <= Len(s)
        /\ SubSeq(s, i, i + Len(sub) - 1) = sub

\* strings.Split(s, sep) for a one-character separator
RECURSIVE SplitFrom(_, _, _)
SplitFrom(s, sep, cur) ==
    IF s = <<>> THEN <<cur>>
    ELSE IF Head(s) = sep THEN <<cur>> \o SplitFrom(Tail(s), sep, <<>>)
    ELSE SplitFrom(Tail(s), sep, Append(cur, Head(s)))

Split(s, sep) == SplitFrom(s, sep, <<>>)

\* strconv.Atoi(s) on unsigned input: [ok, val]
RECURSIVE AtoiFrom(_, _)
AtoiFrom(s, acc) ==
    IF s = <<>> THEN [ok |-> TRUE, val |-> acc]
    ELSE IF IsDigit(Head(s)) THEN AtoiFrom(Tail(s), acc * 10 + DigitVal(Head(s)))
    ELSE [ok |-> FALSE, val |-> 0]

Atoi(s) == IF s = <<>> THEN [ok |-> FALSE, val |-> 0] ELSE AtoiFrom(s, 0)

\* strings.TrimSpace(s)
RECURSIVE TrimLeft(_)
TrimLeft(s) == IF s # <<>> /\ Head(s) = " " THEN TrimLeft(Tail(s)) ELSE s

RECURSIVE TrimRight(_)
TrimRight(s) ==
    IF s # <<>> /\ s[Len(s)] = " " THEN TrimRight(SubSeq(s, 1, Len(s) - 1)) ELSE s

TrimSpace(s) == TrimRight(TrimLeft(s))

\* the uppercase letters of the alphabet
Upper == {"G", "S"}

\* FindAllStringSubmatch for the pattern of any uppercase letter and three digits
RECURSIVE FindAllUpperSubmatch(_, _)
FindAllUpperSubmatch(text, i) ==
    IF i + 3 > Len(text) THEN <<>>
    ELSE IF /\ text[i] \in Upper
            /\ IsDigit(text[i + 1]) /\ IsDigit(text[i + 2]) /\ IsDigit(text[i + 3])
         THEN <<SubSeq(text, i, i + 3)>> \o FindAllUpperSubmatch(text, i + 4)
         ELSE FindAllUpperSubmatch(text, i + 1)

\* regexp.MustCompile("(G\\d{3})").FindAllStringSubmatch(text, -1), each v[1]
RECURSIVE FindAllStringSubmatch(_, _)
FindAllStringSubmatch(text, i) ==
    IF i + 3 > Len(text) THEN <<>>
    ELSE IF /\ text[i] = "G"
            /\ IsDigit(text[i + 1]) /\ IsDigit(text[i + 2]) /\ IsDigit(text[i + 3])
         THEN <<SubSeq(text, i, i + 3)>> \o FindAllStringSubmatch(text, i + 4)
         ELSE FindAllStringSubmatch(text, i + 1)


(***************************************************************************)
(* The input: rule definitions, source trees with their comments, and the  *)
(* packages the loader returns for each package path.                      *)
(***************************************************************************)
Nil == 0

Marker == <<"#", "n", "o", "s", "e", "c">>

G101 == <<"G", "1", "0", "1">>

G102 == <<"G", "1", "0", "2">>

S101 == <<"S", "1", "0", "1">>

Categories == {"File", "Call", "Binary"}

\* the rule builders: what def(id, config) returns as the rule's node types
RuleNodes(id) == IF id = G101 THEN <<"Call">> ELSE <<"Call", "Binary">>

\* the rule-definition tables LoadRules is called with
RuleTables == {{G101, G102}, {G102}}

NoGroups == <<>>

Nodes == 1..13

\* the syntax trees: category, children in document order, attached comment
\* groups (their Text()), and what each rule's Match returns for the node
Tree == [n \in Nodes |->
    CASE n = 1  -> [cat |-> "File", kids |-> <<2, 4, 5>>, groups |-> NoGroups,
                    yields |-> {}, fails |-> {}]
      [] n = 2  -> [cat |-> "Call", kids |-> <<3>>,
                    groups |-> <<Marker \o <<" ">> \o G101>>,
                    yields |-> {G101, G102}, fails |-> {}]
      [] n = 3  -> [cat |-> "Binary", kids |-> <<>>, groups |-> NoGroups,
                    yields |-> {G102}, fails |-> {}]
      [] n = 4  -> [cat |-> "Call", kids |-> <<>>, groups |-> NoGroups,
                    yields |-> {G101, G102}, fails |-> {G101}]
      [] n = 5  -> [cat |-> "Call", kids |-> <<6>>, groups |-> <<Marker>>,
                    yields |-> {G101, G102}, fails |-> {}]
      [] n = 6  -> [cat |-> "Binary", kids |-> <<>>,
                    groups |-> <<Marker \o <<" ">> \o G101>>,
                    yields |-> {G102}, fails |-> {}]
      [] n = 7  -> [cat |-> "File", kids |-> <<8, 10, 11, 13>>, groups |-> NoGroups,
                    yields |-> {}, fails |-> {}]
      [] n = 8  -> [cat |-> "Call", kids |-> <<9>>,
                    groups |-> <<Marker \o <<" ">> \o G101, Marker>>,
                    yields |-> {G101, G102}, fails |-> {}]
      [] n = 9  -> [cat |-> "Call", kids |-> <<>>,
                    groups |-> <<Marker \o <<" ">> \o G102 \o <<" ">> \o G101>>,
                    yields |-> {G101, G102}, fails |-> {}]
      [] n = 10 -> [cat |-> "Binary", kids |-> <<>>,
                    groups |-> <<<<"s", "e", "e", " ">> \o G102, Marker>>,
                    yields |-> {G102}, fails |-> {}]
      [] n = 11 -> [cat |-> "Call", kids |-> <<12>>, groups |-> NoGroups,
                    yields |-> {}, fails |-> {G102}]
      [] n = 12 -> [cat |-> "Binary", kids |-> <<>>,
                    groups |-> <<G102 \o <<" ">> \o Marker>>,
                    yields |-> {G102}, fails |-> {}]
      [] OTHER  -> [cat |-> "Call", kids |-> <<>>,
                    groups |-> <<Marker \o <<" ">> \o S101>>,
                    yields |-> {G101}, fails |-> {}]]

\* the files: name, root node, line count
SourceFiles == {"a", "b"}

FileRoot(f) == IF f = "a" THEN 1 ELSE 7

LineCount(f) == IF f = "a" THEN 3 ELSE 2

\* the parent of a node (Nil for a root)
ParentTable == [n \in Nodes |->
    IF \E p \in Nodes : \E i \in 1..Len(Tree[p].kids) : Tree[p].kids[i] = n
    THEN CHOOSE p \in Nodes : \E i \in 1..Len(Tree[p].kids) : Tree[p].kids[i] = n
    ELSE Nil]

Parent(n) == ParentTable[n]

RECURSIVE AncestorsFrom(_)
AncestorsFrom(n) ==
    IF Parent(n) = Nil THEN {} ELSE {Parent(n)} \cup AncestorsFrom(Parent(n))

AncestorTable == [n \in Nodes |-> AncestorsFrom(n)]

Ancestors(n) == AncestorTable[n]

\* N and its descendants
SubtreeTable == [n \in Nodes |-> {m \in Nodes : m = n \/ n \in Ancestors(m)}]

Subtree(n) == SubtreeTable[n]

\* the root of the tree N is in
RootOf(n) == CHOOSE r \in Nodes : Parent(r) = Nil /\ n \in Subtree(r)

\* ast.NewCommentMap(fset, file, file.Comments): the nodes of the file that
\* have comment groups attached, each with its groups
CommentMaps == [f \in SourceFiles |->
    [n \in {m \in Subtree(FileRoot(f)) : Tree[m].groups # NoGroups} |-> Tree[n].groups]]

NewCommentMap(f) == CommentMaps[f]

\* package paths and what the loader does with each
PackagePaths == {"missing", "broken", "pkgA", "pkgB", "pkgC"}

\* GetPkgAbsPath(packagePath) returns an error
PathMissing(p) == p = "missing"

\* build.Default.ImportDir or packages.Load returns an error
LoadFails(p) == p = "broken"

Colon == <<":">>

ErrText(file, line, col) ==
    <<file>> \o Colon \o line \o Colon \o col \o Colon \o <<" ", "m">>

\* packages.Load(conf, packageFiles...): the packages of a path, each with the
\* text of its Errors and the files of its Syntax
LoadedPackages(p) ==
    CASE p = "pkgA" -> <<[Name |-> "pkgA", Errors |-> <<>>, Syntax |-> <<"a">>]>>
      [] p = "pkgB" -> <<[Name |-> "pkgB",
                          Errors |-> <<ErrText("b", <<"5">>, <<"1">>),
                                       ErrText("b", <<"2">>, <<"1", "0">>)>>,
                          Syntax |-> <<"b">>]>>
      [] OTHER      -> <<[Name |-> "pkgC",
                          Errors |-> <<ErrText("c", <<"5">>, <<"1">>),
                                       ErrText("c", <<"2">>, <<"3">>),
                                       <<"c">> \o Colon \o <<"7">> \o Colon \o <<" ", "m">>>>,
                          Syntax |-> <<>>]>>

\* the packagePaths arguments Process is called with
PathLists == {<<"pkgC">>, <<"missing", "pkgA">>, <<"missing", "pkgC", "pkgA">>,
              <<"pkgA", "broken">>, <<"pkgB", "pkgA">>}


(***************************************************************************)
(* Helpers of the operations.                                              *)
(***************************************************************************)
Range(s) == {s[i] : i \in 1..Len(s)}

ZeroMetrics == [NumFiles |-> 0, NumLines |-> 0, NumNosec |-> 0, NumFound |-> 0]

\* &Context{}
EmptyContext == [Root |-> Nil, Comments |-> <<>>, Ignores |-> <<>>]

\* RuleSet.Register(r, nodes...): the rule is appended to the rules of each type
RECURSIVE Register(_, _, _)
Register(rs, id, cats) ==
    IF cats = <<>> THEN rs
    ELSE Register([rs EXCEPT ![Head(cats)] = Append(@, id)], id, Tail(cats))

\* RuleSet.RegisteredFor(n): the rules registered for the node's type, in order
RegisteredFor(rs, n) == rs[Tree[n].cat]

\* the orders in which `for id, def := range ruleDefinitions` may yield a table
IterationOrders(table) ==
    {o \in [1..Cardinality(table) -> table] : Range(o) = table}

\* the body of LoadRules' loop, over one iteration order
RECURSIVE RegisterAll(_, _)
RegisterAll(rs, order) ==
    IF order = <<>> THEN rs
    ELSE RegisterAll(Register(rs, Head(order), RuleNodes(Head(order))), Tail(order))

\* sortErrors(allErrors): each file's errors ascending by (line, column)
ErrBefore(a, b) ==
    IF a.line = b.line THEN a.column <= b.column ELSE a.line < b.line

RECURSIVE InsertSorted(_, _)
InsertSorted(sorted, e) ==
    IF sorted = <<>> THEN <<e>>
    ELSE IF ErrBefore(Head(sorted), e) THEN <<Head(sorted)>> \o InsertSorted(Tail(sorted), e)
    ELSE <<e>> \o sorted

RECURSIVE SortSlice(_)
SortSlice(es) == IF es = <<>> THEN <<>> ELSE InsertSorted(SortSlice(Tail(es)), Head(es))

sortErrors(allErrors) == [f \in DOMAIN allErrors |-> SortSlice(allErrors[f])]

\* the Error() texts of the Errors of all loaded packages, in loop order
RECURSIVE PackageErrors(_)
PackageErrors(ps) ==
    IF ps = <<>> THEN <<>> ELSE Head(ps).Errors \o PackageErrors(Tail(ps))

\* the Syntax of all loaded packages, in loop order
RECURSIVE PackageFiles(_)
PackageFiles(ps) ==
    IF ps = <<>> THEN <<>> ELSE Head(ps).Syntax \o PackageFiles(Tail(ps))

\* gosec.errors[filePath] = append(errSlice, *newErr)
AppendError(errs, filePath, newErr) ==
    [f \in DOMAIN errs \cup {filePath} |->
        IF f = filePath
        THEN (IF f \in DOMAIN errs THEN Append(errs[f], newErr) ELSE <<newErr>>)
        ELSE errs[f]]

\* the loop over packageInfo.Errors: [errors, ok]; ok is FALSE when Atoi failed
\* and Process returned from inside the loop
RECURSIVE RecordErrors(_, _)
RecordErrors(errs, texts) ==
    IF texts = <<>> THEN [errors |-> errs, ok |-> TRUE]
    ELSE LET infoErr == Split(Head(texts), ":")
             line    == Atoi(infoErr[2])
             column  == Atoi(infoErr[3])
         IN  IF ~line.ok THEN [errors |-> errs, ok |-> FALSE]
             ELSE IF ~column.ok THEN [errors |-> errs, ok |-> FALSE]
             ELSE RecordErrors(
                      AppendError(errs, infoErr[1],
                                  [line |-> line.val, column |-> column.val,
                                   err |-> TrimSpace(infoErr[4])]),
                      Tail(texts))

\* IgnoreGroups with NumNosec incremented only after the exclude-all return
RECURSIVE IgnoreGroupsLateCount(_)
IgnoreGroupsLateCount(groups) ==
    IF groups = <<>> THEN [rules |-> <<>>, all |-> FALSE, nosec |-> 0]
    ELSE IF Contains(Head(groups), Marker)
         THEN LET matches == FindAllStringSubmatch(Head(groups), 1)
              IN  IF matches = <<>>
                  THEN [rules |-> <<>>, all |-> TRUE, nosec |-> 0]
                  ELSE [rules |-> matches, all |-> FALSE, nosec |-> 1]
         ELSE IgnoreGroupsLateCount(Tail(groups))

\* ignore's loop over the comment groups of a node: [rules, all, nosec], nosec
\* being the number of times NumNosec was incremented
RECURSIVE IgnoreGroups(_)
IgnoreGroups(groups) ==
    IF groups = <<>> THEN [rules |-> <<>>, all |-> FALSE, nosec |-> 0]
    ELSE IF Contains(Head(groups), Marker)
         THEN LET matches == FindAllStringSubmatch(Head(groups), 1)
              IN  IF matches = <<>>
                  THEN [rules |-> <<>>, all |-> TRUE, nosec |-> 1]
                  ELSE [rules |-> matches, all |-> FALSE, nosec |-> 1]
         ELSE IgnoreGroups(Tail(groups))

\* ignore reading the comments whatever the analyzer's ignoreNosec says
ignoreAlways(comments, nosecOff, n) ==
    IF n \in DOMAIN comments
    THEN IgnoreGroups(comments[n])
    ELSE [rules |-> <<>>, all |-> FALSE, nosec |-> 0]

\* Analyzer.ignore(n)
ignore(comments, nosecOff, n) ==
    IF n \in DOMAIN comments /\ ~nosecOff
    THEN IgnoreGroups(comments[n])
    ELSE [rules |-> <<>>, all |-> FALSE, nosec |-> 0]

\* PushIgnores adding the node's exclusions to the parent's set itself, which
\* then is the set pushed
PushIgnoresInPlace(stack, ignoredRules) ==
    IF Len(stack) > 0
    THEN <<stack[1] \cup Range(ignoredRules), stack[1] \cup Range(ignoredRules)>>
             \o Tail(stack)
    ELSE <<Range(ignoredRules)>>

\* the union of exclusions pushed onto the stack
PushIgnores(stack, ignoredRules) ==
    <<(IF Len(stack) > 0 THEN stack[1] ELSE {}) \cup Range(ignoredRules)>> \o stack

\* PopIgnores that leaves the stack as it is
PopIgnoresKeep(stack) == stack

\* Visit(nil): pop off the ignores stack
PopIgnores(stack) == IF Len(stack) > 0 THEN Tail(stack) ELSE stack

\* IsIgnored that never skips a rule
IsIgnoredNever(ignores, id) == FALSE

\* `if _, ok := ignores[rule.ID()]; ok { continue }`
IsIgnored(ignores, id) == id \in ignores

\* rule.Match(n, gosec.context): (issue, err)
Match(id, n) == [issue |-> id \in Tree[n].yields, err |-> id \in Tree[n].fails]

\* RecordIssue without the increment of NumFound
RecordIssueNoCount(acc, id, n) ==
    [acc EXCEPT !.issues = Append(@, [rule |-> id, node |-> n])]

\* RecordIssue appending the issue twice
RecordIssueTwice(acc, id, n) ==
    [acc EXCEPT !.issues = @ \o <<[rule |-> id, node |-> n], [rule |-> id, node |-> n]>>,
                !.found = @ + 2]

\* gosec.issues = append(gosec.issues, issue); gosec.stats.NumFound++
RecordIssue(acc, id, n) ==
    [acc EXCEPT !.issues = Append(@, [rule |-> id, node |-> n]), !.found = @ + 1]

\* DispatchRules leaving the loop at the first rule error
RECURSIVE DispatchRulesStopOnError(_, _, _, _)
DispatchRulesStopOnError(rules, ignores, n, acc) ==
    IF rules = <<>> THEN acc
    ELSE IF IsIgnored(ignores, Head(rules))
         THEN DispatchRulesStopOnError(Tail(rules), ignores, n, acc)
         ELSE LET m    == Match(Head(rules), n)
                  seen == [acc EXCEPT !.log = Append(@, [rule |-> Head(rules),
                                                        issue |-> m.issue,
                                                        err |-> m.err]),
                                      !.errs = IF m.err THEN @ + 1 ELSE @]
              IN  IF m.err THEN seen
                  ELSE DispatchRulesStopOnError(Tail(rules), ignores, n,
                           IF m.issue THEN RecordIssue(seen, Head(rules), n) ELSE seen)

\* the loop of Visit over the rules registered for n; acc is [issues, found, log,
\* errs], errs counting the "Rule error" lines logged
RECURSIVE DispatchRules(_, _, _, _)
DispatchRules(rules, ignores, n, acc) ==
    IF rules = <<>> THEN acc
    ELSE IF IsIgnored(ignores, Head(rules))
         THEN DispatchRules(Tail(rules), ignores, n, acc)
         ELSE LET m    == Match(Head(rules), n)
                  seen == [acc EXCEPT !.log = Append(@, [rule |-> Head(rules),
                                                        issue |-> m.issue,
                                                        err |-> m.err]),
                                      !.errs = IF m.err THEN @ + 1 ELSE @]
              IN  DispatchRules(Tail(rules), ignores, n,
                                IF m.issue THEN RecordIssue(seen, Head(rules), n)
                                ELSE seen)

\* WalkAfter calling Visit(nil) for a node at which Visit returned nil
WalkAfterLeavePruned(rest, n, pruned) ==
    IF pruned THEN <<Nil>> \o rest ELSE Tree[n].kids \o <<Nil>> \o rest

\* WalkAfter descending into the children whatever Visit returned
WalkAfterNoPrune(rest, n, pruned) == Tree[n].kids \o <<Nil>> \o rest

\* ast.Walk after Visit(n): nothing more when Visit returned nil, otherwise the
\* children in order and then Visit(nil)
WalkAfter(rest, n, pruned) ==
    IF pruned THEN rest ELSE Tree[n].kids \o <<Nil>> \o rest


(***************************************************************************)
(* The operations.                                                         *)
(***************************************************************************)
walkVars == <<paths, pkgs, files, todo>>

NoVisit == [node |-> Nil, pruned |-> FALSE]

ghostVars == <<callPaths, issues0, stats0, errors0, ignored, walked, visit, dispatched,
               ruleErrors>>

\* the values of the global nosec option in a configuration
Configs == {"enabled", "disabled", "unset"}

\* conf.IsGlobalEnabled(Nosec): (enabled, err); err when the option is not set
IsGlobalEnabled(conf) == [enabled |-> conf = "enabled", err |-> conf = "unset"]

\* NewAnalyzer: ignoreNoSec is what IsGlobalEnabled says unless it fails
NewIgnoreNosec(conf) ==
    LET r == IsGlobalEnabled(conf) IN IF ~r.err THEN r.enabled ELSE FALSE

\* NewAnalyzer(conf, logger), for each value of the global nosec option
Init ==
    /\ config \in Configs
    /\ ignoreNosec = NewIgnoreNosec(config)
    /\ ruleset = [c \in Categories |-> <<>>]
    /\ context = EmptyContext
    /\ issues = <<>>
    /\ stats = ZeroMetrics
    /\ errors = <<>>
    /\ report = [taken |-> FALSE, issues |-> <<>>, live |-> FALSE, metrics |-> ZeroMetrics]
    /\ pc = "idle"
    /\ paths = <<>>
    /\ pkgs = <<>>
    /\ files = <<>>
    /\ todo = <<>>
    /\ ret = "none"
    /\ loads = 0
    /\ calls = 0
    /\ callPaths = <<>>
    /\ issues0 = <<>>
    /\ stats0 = ZeroMetrics
    /\ errors0 = <<>>
    /\ lastOp = "NewAnalyzer"
    /\ ignored = <<>>
    /\ walked = {}
    /\ visit = NoVisit
    /\ dispatched = <<>>
    /\ ruleErrors = 0

\* LoadRules(ruleDefinitions)
LoadRules ==
    /\ pc = "idle"
    /\ loads < MaxLoads
    /\ \E table \in RuleTables : \E order \in IterationOrders(table) :
           ruleset' = RegisterAll(ruleset, order)
    /\ loads' = loads + 1
    /\ lastOp' = "LoadRules"
    /\ UNCHANGED <<config, ignoreNosec, context, issues, stats, errors, report, pc, ret,
                   calls>>
    /\ UNCHANGED walkVars
    /\ UNCHANGED ghostVars

\* Process(buildTags, packagePaths...): the call
ProcessCall ==
    /\ pc = "idle"
    /\ calls < MaxCalls
    /\ \E pl \in PathLists : paths' = pl /\ callPaths' = pl
    /\ calls' = calls + 1
    /\ pc' = "load"
    /\ pkgs' = <<>>
    /\ files' = <<>>
    /\ todo' = <<>>
    /\ ret' = "none"
    /\ issues0' = issues
    /\ stats0' = stats
    /\ errors0' = errors
    /\ lastOp' = "Process"
    /\ ignored' = <<>>
    /\ walked' = {}
    /\ visit' = NoVisit
    /\ dispatched' = <<>>
    /\ ruleErrors' = 0
    /\ UNCHANGED <<config, ignoreNosec, ruleset, context, issues, stats, errors, report,
                   loads>>

\* LoadOutcome with a failed load skipped like a missing path
LoadOutcomeSkipFailed(p) ==
    IF PathMissing(p) \/ LoadFails(p) THEN "skip" ELSE "loaded"

\* what one iteration of the loop over packagePaths does with a path
LoadOutcome(p) ==
    IF PathMissing(p) THEN "skip" ELSE IF LoadFails(p) THEN "return" ELSE "loaded"

\* Process: one iteration of the loop over packagePaths
LoadPath ==
    /\ pc = "load"
    /\ paths # <<>>
    /\ LET o == LoadOutcome(Head(paths))
       IN  /\ pc' = IF o = "return" THEN "idle" ELSE "load"
           /\ ret' = IF o = "return" THEN "loadErr" ELSE ret
           /\ pkgs' = IF o = "loaded" THEN pkgs \o LoadedPackages(Head(paths)) ELSE pkgs
           /\ paths' = IF o = "return" THEN <<>> ELSE Tail(paths)
    /\ UNCHANGED <<config, ignoreNosec, ruleset, context, issues, stats, errors, report,
                   files, todo, loads, calls, lastOp>>
    /\ UNCHANGED ghostVars

\* Process: the loop over the packages' Errors, then sortErrors
CollectErrors ==
    /\ pc = "load"
    /\ paths = <<>>
    /\ LET r == RecordErrors(errors, PackageErrors(pkgs))
       IN  IF r.ok
           THEN /\ errors' = sortErrors(r.errors)
                /\ files' = PackageFiles(pkgs)
                /\ pc' = "files"
                /\ ret' = ret
           ELSE /\ errors' = r.errors
                /\ files' = <<>>
                /\ pc' = "idle"
                /\ ret' = "atoiErr"
    /\ UNCHANGED <<config, ignoreNosec, ruleset, context, issues, stats, report, paths,
                   pkgs, todo, loads, calls, lastOp>>
    /\ UNCHANGED ghostVars

\* Process: the context is set for the next file and ast.Walk is entered
StartFile ==
    /\ pc = "files"
    /\ files # <<>>
    /\ context' = [context EXCEPT !.Root = FileRoot(Head(files)),
                                  !.Comments = NewCommentMap(Head(files))]
    /\ todo' = <<FileRoot(Head(files))>>
    /\ pc' = "walk"
    /\ UNCHANGED <<config, ignoreNosec, ruleset, issues, stats, errors, report, paths,
                   pkgs, files, ret, loads, calls, lastOp>>
    /\ UNCHANGED ghostVars

\* Visit(n) for a node
VisitNode ==
    /\ pc = "walk"
    /\ todo # <<>>
    /\ Head(todo) # Nil
    /\ LET n  == Head(todo)
           ig == ignore(context.Comments, ignoreNosec, n)
       IN  /\ ignored' = ig.rules
           /\ IF ig.all
              THEN /\ stats' = [stats EXCEPT !.NumNosec = @ + ig.nosec]
                   /\ todo' = WalkAfter(Tail(todo), n, TRUE)
                   /\ visit' = [node |-> n, pruned |-> TRUE]
                   /\ dispatched' = <<>>
                   /\ UNCHANGED <<context, issues, walked, ruleErrors>>
              ELSE LET stack == PushIgnores(context.Ignores, ig.rules)
                       acc   == DispatchRules(RegisteredFor(ruleset, n), stack[1], n,
                                              [issues |-> issues,
                                               found |-> stats.NumFound,
                                               log |-> <<>>, errs |-> ruleErrors])
                   IN  /\ context' = [context EXCEPT !.Ignores = stack]
                       /\ issues' = acc.issues
                       /\ stats' = [stats EXCEPT !.NumNosec = @ + ig.nosec,
                                                 !.NumFound = acc.found]
                       /\ todo' = WalkAfter(Tail(todo), n, FALSE)
                       /\ visit' = [node |-> n, pruned |-> FALSE]
                       /\ dispatched' = acc.log
                       /\ ruleErrors' = acc.errs
                       /\ walked' = walked \cup {n}
    /\ UNCHANGED <<config, ignoreNosec, ruleset, errors, report, pc, paths, pkgs, files,
                   ret, loads, calls, callPaths, issues0, stats0, errors0, lastOp>>

\* Visit(nil)
VisitNil ==
    /\ pc = "walk"
    /\ todo # <<>>
    /\ Head(todo) = Nil
    /\ context' = [context EXCEPT !.Ignores = PopIgnores(@)]
    /\ todo' = Tail(todo)
    /\ visit' = NoVisit
    /\ ignored' = <<>>
    /\ dispatched' = <<>>
    /\ UNCHANGED <<config, ignoreNosec, ruleset, issues, stats, errors, report, pc, paths,
                   pkgs, files, ret, loads, calls, callPaths, issues0, stats0, errors0,
                   lastOp, walked, ruleErrors>>

\* Process: ast.Walk has returned; the file is counted
FileDone ==
    /\ pc = "walk"
    /\ todo = <<>>
    /\ stats' = [stats EXCEPT !.NumFiles = @ + 1,
                              !.NumLines = @ + LineCount(Head(files))]
    /\ files' = Tail(files)
    /\ pc' = "files"
    /\ UNCHANGED <<config, ignoreNosec, ruleset, context, issues, errors, report, paths,
                   pkgs, todo, ret, loads, calls, lastOp>>
    /\ UNCHANGED ghostVars

\* Process: return nil
ProcessReturn ==
    /\ pc = "files"
    /\ files = <<>>
    /\ pc' = "idle"
    /\ ret' = "nil"
    /\ UNCHANGED <<config, ignoreNosec, ruleset, context, issues, stats, errors, report,
                   loads, calls, lastOp>>
    /\ UNCHANGED walkVars
    /\ UNCHANGED ghostVars

\* Report(): the issues slice as it is now, the Metrics object and the errors map
Report ==
    /\ pc = "idle"
    /\ report' = [taken |-> TRUE, issues |-> issues, live |-> TRUE,
                  metrics |-> ZeroMetrics]
    /\ lastOp' = "Report"
    /\ UNCHANGED <<config, ignoreNosec, ruleset, context, issues, stats, errors, pc, ret,
                   loads, calls>>
    /\ UNCHANGED walkVars
    /\ UNCHANGED ghostVars

\* Reset with the found counter carried over into the new Metrics
ResetKeepsFound ==
    /\ pc = "idle"
    /\ context' = EmptyContext
    /\ issues' = <<>>
    /\ stats' = [ZeroMetrics EXCEPT !.NumFound = stats.NumFound]
    /\ report' = IF report.live
                 THEN [report EXCEPT !.live = FALSE, !.metrics = stats]
                 ELSE report
    /\ lastOp' = "Reset"
    /\ UNCHANGED <<config, ignoreNosec, ruleset, errors, pc, ret, loads, calls>>
    /\ UNCHANGED walkVars
    /\ UNCHANGED ghostVars

\* Reset with a new errors map as well
ResetClearsErrors ==
    /\ pc = "idle"
    /\ context' = EmptyContext
    /\ issues' = <<>>
    /\ stats' = ZeroMetrics
    /\ report' = IF report.live
                 THEN [report EXCEPT !.live = FALSE, !.metrics = stats]
                 ELSE report
    /\ lastOp' = "Reset"
    /\ errors' = <<>>
    /\ UNCHANGED <<config, ignoreNosec, ruleset, pc, ret, loads, calls>>
    /\ UNCHANGED walkVars
    /\ UNCHANGED ghostVars

\* Reset(): a new context, a new issues slice and a new Metrics object; a report
\* taken before keeps the old Metrics object
Reset ==
    /\ pc = "idle"
    /\ context' = EmptyContext
    /\ issues' = <<>>
    /\ stats' = ZeroMetrics
    /\ report' = IF report.live
                 THEN [report EXCEPT !.live = FALSE, !.metrics = stats]
                 ELSE report
    /\ lastOp' = "Reset"
    /\ UNCHANGED <<config, ignoreNosec, ruleset, errors, pc, ret, loads, calls>>
    /\ UNCHANGED walkVars
    /\ UNCHANGED ghostVars

Next ==
    \/ LoadRules
    \/ ProcessCall
    \/ LoadPath
    \/ CollectErrors
    \/ StartFile
    \/ VisitNode
    \/ VisitNil
    \/ FileDone
    \/ ProcessReturn
    \/ Report
    \/ Reset

Spec == Init /\ [][Next]_vars

\* the metrics seen through the report taken last
ReportMetrics == IF report.live THEN stats ELSE report.metrics


(***************************************************************************)
(* Notions the properties are stated with.                                 *)
(***************************************************************************)
\* the file a node belongs to
FileOfTable == [n \in Nodes |-> CHOOSE f \in SourceFiles : FileRoot(f) = RootOf(n)]

FileOf(n) == FileOfTable[n]

\* what N's directive evaluates to, with the global nosec option on or off
DirectiveTable == [off \in BOOLEAN |->
    [n \in Nodes |-> ignore(NewCommentMap(FileOf(n)), off, n)]]

\* what N's directive evaluates to under the analyzer's configuration
DirectiveOf(n) == DirectiveTable[ignoreNosec][n]

\* the exclusions along the path from the root to N
RECURSIVE ActiveFrom(_, _)
ActiveFrom(off, n) ==
    IF n = Nil THEN {}
    ELSE ActiveFrom(off, Parent(n)) \cup Range(DirectiveTable[off][n].rules)

ActiveTable == [off \in BOOLEAN |-> [n \in Nodes \cup {Nil} |-> ActiveFrom(off, n)]]

ActiveAt(n) == ActiveTable[ignoreNosec][n]

\* N or one of its ancestors evaluates to exclude-all, so N is never entered
InPruned(n) == \E m \in {n} \cup Ancestors(n) : DirectiveOf(m).all

\* the first comment group of N that contains the marker lists no code
BareTable == [n \in Nodes |-> IgnoreGroups(Tree[n].groups).all]

FirstMarkerIsBare(n) == BareTable[n]

\* the number of comment groups of N that contain the marker
MarkerGroupsTable == [n \in Nodes |->
    Cardinality({i \in 1..Len(Tree[n].groups) : Contains(Tree[n].groups[i], Marker)})]

MarkerGroups(n) == MarkerGroupsTable[n]

\* the files a Process call over the paths pl walks when no load fails
RECURSIVE FilesOf(_)
FilesOf(pl) ==
    IF pl = <<>> THEN {}
    ELSE (IF LoadOutcome(Head(pl)) = "loaded"
          THEN Range(PackageFiles(LoadedPackages(Head(pl)))) ELSE {})
         \cup FilesOf(Tail(pl))

\* the last step was Visit(n) for a node n that was not pruned
Entered(n) == visit.node = n /\ ~visit.pruned

IssuesAt(n) == {i \in 1..Len(issues) : issues[i].node = n}

(***************************************************************************)
(* C1: a rule whose identifier is in the exclusion set pushed for node N   *)
(* is not invoked for N, and the issue sequence never holds an issue of a  *)
(* rule for a node at which the rule is excluded.                          *)
(***************************************************************************)
C1_ExcludedRuleNeverMatches ==
    /\ \A n \in Nodes : Entered(n) =>
           \A k \in 1..Len(dispatched) : dispatched[k].rule \notin context.Ignores[1]
    /\ \A i \in 1..Len(issues) : issues[i].rule \notin ActiveAt(issues[i].node)

\* node 2 (a call annotated with G101) was entered with G101 registered for it
C1_Witness ==
    /\ Entered(2)
    /\ G101 \in Range(RegisteredFor(ruleset, 2))
    /\ G101 \in context.Ignores[1]
    /\ Len(dispatched) > 0

(***************************************************************************)
(* C2 as stated: a bare marker on node N guarantees that the walk records  *)
(* no issue for N or a descendant of N.                                    *)
(***************************************************************************)
C2_Original ==
    \A n \in Nodes : FirstMarkerIsBare(n) =>
        \A m \in Subtree(n) : IssuesAt(m) = {}

(***************************************************************************)
(* C2 amended: when the global nosec option is not enabled, a node N whose *)
(* first marker-bearing comment group is a bare marker is pruned: there is *)
(* no issue for N or a descendant of N, none of them is entered, and the   *)
(* Visit of N pushes nothing and dispatches no rule.                       *)
(***************************************************************************)
C2_ExcludeAllPrunes ==
    ~ignoreNosec =>
        \A n \in Nodes : FirstMarkerIsBare(n) =>
            /\ \A m \in Subtree(n) : IssuesAt(m) = {} /\ m \notin walked
            /\ visit.node = n =>
                   /\ visit.pruned
                   /\ dispatched = <<>>
                   /\ Len(context.Ignores) = Cardinality(Ancestors(n))

\* node 5 (bare marker, over node 6 with its own directive) was pruned while
\* rules that match in its subtree were registered
C2_Witness ==
    /\ ~ignoreNosec
    /\ visit = [node |-> 5, pruned |-> TRUE]
    /\ G101 \in Range(RegisteredFor(ruleset, 5))
    /\ G102 \in Range(RegisteredFor(ruleset, 6))

(***************************************************************************)
(* C3: at every entered node N the top of context.Ignores is the union of  *)
(* the active set of N's parent (empty above the root) and the explicit    *)
(* exclusions of N's directive, and the stack holds one frame per node of  *)
(* the path from the root to N.                                            *)
(***************************************************************************)
C3_ActiveSetIsUnionAlongPath ==
    \A n \in Nodes : Entered(n) =>
        /\ Len(context.Ignores) = Cardinality(Ancestors(n)) + 1
        /\ context.Ignores[1] = ActiveAt(Parent(n)) \cup Range(DirectiveOf(n).rules)
        /\ \A a \in Ancestors(n) : ActiveAt(a) \subseteq context.Ignores[1]

\* node 4 is entered after its sibling 2 (which excludes G101) was left, in a
\* call that before entered node 9, whose set joins its directive and node 8's
C3_Witness ==
    /\ ~ignoreNosec
    /\ Entered(4)
    /\ {2, 3, 8, 9} \subseteq walked
    /\ context.Ignores = <<{}, {}>>
    /\ ActiveAt(9) = {G101, G102}


(***************************************************************************)
(* C4: a rule error never aborts the traversal.  At every entered node     *)
(* each registered rule that is not excluded is dispatched, in order,      *)
(* whatever the rules before it returned; and when Process returns nil,    *)
(* every node of every loaded file outside the pruned subtrees has been    *)
(* entered, whatever rule errors were logged on the way.                   *)
(***************************************************************************)
NotExcluded(id) == id \notin context.Ignores[1]

C4_RuleErrorNeverAborts ==
    /\ \A n \in Nodes : Entered(n) =>
           /\ Len(dispatched) = Len(SelectSeq(RegisteredFor(ruleset, n), NotExcluded))
           /\ \A k \in 1..Len(dispatched) :
                  dispatched[k].rule = SelectSeq(RegisteredFor(ruleset, n), NotExcluded)[k]
    /\ (pc = "idle" /\ ret = "nil") =>
           walked = {n \in Nodes : FileOf(n) \in FilesOf(callPaths) /\ ~InPruned(n)}

\* Process returned nil after walking b and then a with rule errors logged in
\* both; at node 4 G101 failed first and G102 was still dispatched after it
C4_Witness ==
    /\ pc = "idle" /\ ret = "nil" /\ ruleErrors > 1
    /\ callPaths = <<"pkgB", "pkgA">>
    /\ {1, 4, 7, 12} \subseteq walked
    /\ RegisteredFor(ruleset, 4) = <<G101, G102>>
    /\ \E i \in IssuesAt(4) : issues[i].rule = G102

(***************************************************************************)
(* C5 as stated: an invocation of Match that reported an error contributes *)
(* no issue to the issue sequence.                                         *)
(***************************************************************************)
C5_ErrorContributesNoIssue ==
    \A n \in Nodes : Entered(n) =>
        \A k \in 1..Len(dispatched) : dispatched[k].err =>
            \A i \in IssuesAt(n) : issues[i].rule # dispatched[k].rule

(***************************************************************************)
(* C6 as stated: LoadRules registers the rules of a table in ascending     *)
(* order of their identifiers, so what a LoadRules call appends to the     *)
(* rules of a node type is ascending.                                      *)
(***************************************************************************)
IsAscending(ids) == \A i \in 1..(Len(ids) - 1) : StrLess(ids[i], ids[i + 1])

C6_RegistrationIsSorted ==
    [][loads' = loads + 1 =>
          \A c \in Categories :
              IsAscending(SubSeq(ruleset'[c], Len(ruleset[c]) + 1, Len(ruleset'[c])))]_vars

(***************************************************************************)
(* C7: the found count of the metrics equals the length of the issue       *)
(* sequence, in every state, hence in every report at the time it is       *)
(* returned.                                                               *)
(***************************************************************************)
C7_FoundEqualsIssueCount ==
    /\ stats.NumFound = Len(issues)
    /\ (report.taken /\ report.live /\ report.issues = issues) =>
           ReportMetrics.NumFound = Len(report.issues)

\* a report taken after a scan, a Reset and a second scan that found issues
C7_Witness ==
    /\ report.taken /\ report.live /\ report.issues = issues
    /\ pc = "idle" /\ calls = 2
    /\ Len(issues) > 0
    /\ Len(issues0) = 0 /\ ret = "nil"

(***************************************************************************)
(* C8 as stated: whenever a report can be taken, the errors of each file   *)
(* are in strictly ascending (line, column) order.                         *)
(***************************************************************************)
StrictlyBefore(a, b) ==
    a.line < b.line \/ (a.line = b.line /\ a.column < b.column)

C8_ErrorsStrictlyAscending ==
    pc = "idle" =>
        \A f \in DOMAIN errors :
            \A i \in 1..(Len(errors[f]) - 1) : StrictlyBefore(errors[f][i], errors[f][i + 1])


(***************************************************************************)
(* C9 as stated (with directives enabled): a Visit of a node adds to the   *)
(* suppressions metric one for each attached comment group that contains   *)
(* the marker.                                                             *)
(***************************************************************************)
VisitsNode == pc = "walk" /\ todo # <<>> /\ Head(todo) # Nil

C9_Original ==
    [][(VisitsNode /\ ~ignoreNosec) =>
          stats'.NumNosec = stats.NumNosec + MarkerGroups(Head(todo))]_vars

(***************************************************************************)
(* C9 amended: the suppressions metric is incremented by exactly one each  *)
(* time Visit is called for a node that has at least one attached comment  *)
(* group containing the marker, whatever codes the group lists and whether *)
(* or not it is exclude-all; further marker groups of the same node are    *)
(* not counted.  It is never incremented when the global nosec option is   *)
(* enabled, and nothing else changes it but Reset, which zeroes it.        *)
(***************************************************************************)
C9_OneCountPerAnnotatedNode ==
    [][IF VisitsNode
       THEN stats'.NumNosec = stats.NumNosec +
                (IF ~ignoreNosec /\ MarkerGroups(Head(todo)) > 0 THEN 1 ELSE 0)
       ELSE stats'.NumNosec = stats.NumNosec \/ stats' = ZeroMetrics]_vars

\* node 8, with two marker groups, was entered and counted once; node 5, a bare
\* marker, had been counted in the call before
C9_Witness ==
    /\ ~ignoreNosec
    /\ Entered(8)
    /\ MarkerGroups(8) = 2
    /\ stats.NumNosec = stats0.NumNosec + 1
    /\ stats0.NumNosec >= 3

(***************************************************************************)
(* C10: when the load of a package path fails, Process returns the error   *)
(* at once; no node has been visited in the call, and the issue sequence   *)
(* and the metrics are what they were when the call started.               *)
(***************************************************************************)
C10_LoadFailureAbortsUnchanged ==
    [][(pc = "load" /\ paths # <<>> /\ LoadFails(Head(paths))) =>
          /\ pc' = "idle"
          /\ ret' = "loadErr"
          /\ walked' = {} /\ walked = {}
          /\ issues' = issues0 /\ stats' = stats0
          /\ files' = <<>> /\ todo' = <<>>]_vars

\* Process returned a load error after another path had been loaded, with
\* issues of an earlier call in the analyzer
C10_Witness ==
    /\ pc = "idle"
    /\ ret = "loadErr"
    /\ callPaths = <<"pkgA", "broken">>
    /\ pkgs # <<>>
    /\ walked = {}
    /\ Len(issues) > 0 /\ issues = issues0 /\ stats = stats0

(***************************************************************************)
(* Notions for the errors of the loaded packages.                          *)
(***************************************************************************)
\* the position a package error text carries: file, line and column as Process
\* reads them from the text split at ":"
ErrorAt(text) ==
    LET infoErr == Split(text, ":")
    IN  [file |-> infoErr[1], line |-> Atoi(infoErr[2]), column |-> Atoi(infoErr[3])]

\* the text has the form file:line:column: message
HasPosition(text) ==
    /\ Len(Split(text, ":")) >= 4
    /\ ErrorAt(text).line.ok
    /\ ErrorAt(text).column.ok

\* the errors recorded for a file, none if the map has no key for it
ErrorsOf(errs, f) == IF f \in DOMAIN errs THEN errs[f] ELSE <<>>

\* how many entries of a file's error sequence are at (line, column)
EntriesAt(es, l, c) ==
    Cardinality({i \in 1..Len(es) : es[i].line = l /\ es[i].column = c})

\* Process has returned and nothing was called since; every path was loaded or
\* skipped (no load failed)
ProcessReturned == pc = "idle" /\ lastOp = "Process" /\ ret \in {"nil", "atoiErr"}

(***************************************************************************)
(* C11 as stated: an error the loader reports for a package at (line L,    *)
(* column C) of a file is not fatal: the call adds exactly one entry (L, C) *)
(* to the errors of the file, Process returns nil, and every file of every *)
(* loaded package has been walked and counted.                             *)
(***************************************************************************)
C11_ParseErrorIsNonFatal ==
    ProcessReturned =>
        \A k \in 1..Len(PackageErrors(pkgs)) :
            HasPosition(PackageErrors(pkgs)[k]) =>
                LET e == ErrorAt(PackageErrors(pkgs)[k])
                IN  /\ ret = "nil"
                    /\ EntriesAt(ErrorsOf(errors, e.file), e.line.val, e.column.val)
                         = EntriesAt(ErrorsOf(errors0, e.file), e.line.val,
                                     e.column.val) + 1
                    /\ stats.NumFiles = stats0.NumFiles + Len(PackageFiles(pkgs))
                    /\ \A f \in Range(PackageFiles(pkgs)) : FileRoot(f) \in walked

(***************************************************************************)
(* C12 as stated: when some of the paths given to Process do not exist and *)
(* every other path loads, the missing paths are skipped (nothing is       *)
(* loaded for them), every file of the loaded paths has been walked and    *)
(* counted in the files metric, and Process returns nil.                   *)
(***************************************************************************)
C12_MissingPathsAreSkipped ==
    (/\ pc = "idle" /\ lastOp = "Process"
     /\ \E i \in 1..Len(callPaths) : PathMissing(callPaths[i])
     /\ \A i \in 1..Len(callPaths) : ~LoadFails(callPaths[i])) =>
        /\ ret = "nil"
        /\ Range(PackageFiles(pkgs)) = FilesOf(callPaths)
        /\ stats.NumFiles = stats0.NumFiles + Len(PackageFiles(pkgs))
        /\ \A f \in FilesOf(callPaths) : FileRoot(f) \in walked

(***************************************************************************)
(* C13: Reset immediately followed by Report yields an empty issue         *)
(* sequence and metrics whose four counters are all zero, whatever was     *)
(* done before.                                                            *)
(***************************************************************************)
C13_ResetThenReportIsEmpty ==
    [][(lastOp = "Reset" /\ lastOp' = "Report") =>
          /\ report'.taken
          /\ report'.issues = <<>>
          /\ ReportMetrics' = ZeroMetrics]_vars

\* a report taken after a Reset that followed a scan in which b and a were
\* walked, issues were found and rule errors logged
C13_Witness ==
    /\ lastOp = "Report"
    /\ context = EmptyContext
    /\ ret = "nil" /\ callPaths = <<"pkgB", "pkgA">> /\ ruleErrors > 0
    /\ stats0 = ZeroMetrics /\ issues0 = <<>>
    /\ report.taken /\ report.issues = <<>> /\ ReportMetrics = ZeroMetrics

(***************************************************************************)
(* C14 as stated: what is observed through a report that Report returned   *)
(* (its issues, its metrics, its errors by file) is not changed by any     *)
(* operation performed afterwards, until another report is taken.          *)
(***************************************************************************)
\* the triple seen through the report taken last: the issues slice as it was
\* returned, the Metrics object it points to, and the analyzer's errors map
Observed == [issues |-> report.issues, metrics |-> ReportMetrics, errors |-> errors]

C14_ReportIsImmutable ==
    [][(report.taken /\ lastOp' # "Report") => Observed' = Observed]_vars

(***************************************************************************)
(* C15: Reset changes only the context, the issue sequence and the         *)
(* metrics: the configuration, the rule set, the nosec flag and the errors *)
(* by file are left as they were, and so the errors recorded by a scan are *)
(* still in a report taken after Reset.                                    *)
(***************************************************************************)
C15_ResetKeepsTheRest ==
    [][/\ (pc = "idle" /\ lastOp' = "Reset") =>
              /\ config' = config
              /\ ruleset' = ruleset
              /\ ignoreNosec' = ignoreNosec
              /\ errors' = errors
       /\ (lastOp = "Reset" /\ lastOp' = "Report") =>
              /\ errors' = errors
              /\ Observed'.errors = errors]_vars

\* after a scan of b that recorded its two errors and a Reset, a report is
\* taken: issues and metrics are cleared, the rules and b's errors are there
C15_Witness ==
    /\ lastOp = "Report"
    /\ context = EmptyContext /\ issues = <<>> /\ stats = ZeroMetrics
    /\ 7 \in walked
    /\ ruleset["Call"] # <<>>
    /\ <<"b">> \in DOMAIN Observed.errors
    /\ Len(Observed.errors[<<"b">>]) >= 2

(***************************************************************************)
(* Notions for the evaluation of a directive.                              *)
(***************************************************************************)
\* the index of the first comment group of N that contains the marker, 0 if
\* there is none
FirstMarkerGroup(n) ==
    LET gs == {i \in 1..Len(Tree[n].groups) : Contains(Tree[n].groups[i], Marker)}
    IN  IF gs = {} THEN 0 ELSE CHOOSE i \in gs : \A j \in gs : i <= j

\* where the marker starts in a text that contains it
MarkerAt(g) ==
    CHOOSE i \in 1..Len(g) :
        /\ i + Len(Marker) - 1 <= Len(g)
        /\ SubSeq(g, i, i + Len(Marker) - 1) = Marker
        /\ \A j \in 1..(i - 1) : SubSeq(g, j, j + Len(Marker) - 1) # Marker

\* a token that is one uppercase letter followed by exactly three digits
IsCode(tok) ==
    /\ Len(tok) = 4
    /\ tok[1] \in Upper
    /\ IsDigit(tok[2]) /\ IsDigit(tok[3]) /\ IsDigit(tok[4])

\* the whitespace-separated codes that trail the marker in a text
TrailingCodes(g) ==
    IF ~Contains(g, Marker) THEN <<>>
    ELSE SelectSeq(Split(SubSeq(g, MarkerAt(g) + Len(Marker), Len(g)), " "), IsCode)

\* the positions of a text at which "G" and three digits stand
GCodePositions(g) ==
    {i \in 1..(Len(g) - 3) :
        g[i] = "G" /\ IsDigit(g[i + 1]) /\ IsDigit(g[i + 2]) /\ IsDigit(g[i + 3])}

\* the G-codes of a text, wherever they stand in it, from left to right
GCodesIn(g) ==
    LET P == GCodePositions(g)
    IN  [k \in 1..Cardinality(P) |->
            LET p == CHOOSE q \in P : Cardinality({r \in P : r < q}) = k - 1
            IN  SubSeq(g, p, p + 3)]

\* the text of the first comment group of N that contains the marker, empty if
\* there is none
FirstMarkerText(n) ==
    IF FirstMarkerGroup(n) = 0 THEN <<>> ELSE Tree[n].groups[FirstMarkerGroup(n)]

\* what the directive of N evaluates to, given the codes read from that text
Evaluation(n, codes) ==
    IF FirstMarkerGroup(n) = 0 THEN [rules |-> <<>>, all |-> FALSE]
    ELSE IF Len(codes) = 0 THEN [rules |-> <<>>, all |-> TRUE]
    ELSE [rules |-> codes, all |-> FALSE]

ClaimedTable == [n \in Nodes |-> Evaluation(n, TrailingCodes(FirstMarkerText(n)))]

EvaluatedTable == [off \in BOOLEAN |-> [n \in Nodes |->
    IF off THEN [rules |-> <<>>, all |-> FALSE]
    ELSE Evaluation(n, GCodesIn(FirstMarkerText(n)))]]

(***************************************************************************)
(* C16 as stated (with directives enabled): the directive of a visited     *)
(* node evaluates to the codes (an uppercase letter and exactly three      *)
(* digits) that trail the marker with excludeAll false, to excludeAll true *)
(* when no code trails the marker, and to nothing when there is no marker. *)
(***************************************************************************)
C16_Original ==
    \A n \in Nodes : (visit.node = n /\ ~ignoreNosec) =>
        /\ ignored = ClaimedTable[n].rules
        /\ visit.pruned = ClaimedTable[n].all

(***************************************************************************)
(* C16 corrected: with the global nosec option not enabled, the directive  *)
(* of a visited node is read from the first attached comment group that    *)
(* contains the marker: every occurrence of "G" and three digits anywhere  *)
(* in that group's text, before or after the marker, is an exclusion, with *)
(* excludeAll false; if the text has no such occurrence (codes with        *)
(* another letter do not count) excludeAll is true; with no marker there   *)
(* are no exclusions and excludeAll is false.  With the option enabled     *)
(* every node evaluates to no exclusions and excludeAll false.             *)
(***************************************************************************)
C16_DirectiveEvaluation ==
    \A n \in Nodes : visit.node = n =>
        /\ Len(ignored) = Len(EvaluatedTable[ignoreNosec][n].rules)
        /\ \A k \in 1..Len(ignored) :
               ignored[k] = EvaluatedTable[ignoreNosec][n].rules[k]
        /\ visit.pruned = EvaluatedTable[ignoreNosec][n].all

\* node 9, whose comment lists G102 and G101 after the marker, was visited
C16_Witness ==
    /\ visit = [node |-> 9, pruned |-> FALSE]
    /\ ignored = <<G102, G101>>
    /\ ~ignoreNosec

(***************************************************************************)
(* C17: a directive that names codes suppresses only those rules: at every *)
(* node that is entered, each registration of a rule for the node's type   *)
(* whose identifier is not in the active exclusion set has its Match       *)
(* invoked exactly once (and an excluded rule not at all), and an issue it *)
(* yields is recorded exactly once for that node in the call (the tally is *)
(* taken when Process has returned).                                       *)
(***************************************************************************)
\* how often x occurs in a sequence
Count(seq, x) == Cardinality({i \in 1..Len(seq) : seq[i] = x})

\* the rules Match was invoked on in the last Visit, in order
Invoked == [k \in 1..Len(dispatched) |-> dispatched[k].rule]

\* the issues the current/last Process call has recorded
CallIssues == SubSeq(issues, Len(issues0) + 1, Len(issues))

RuleIds == UNION RuleTables

C17_OnlyNamedRulesSuppressed ==
    /\ (visit.node # Nil /\ ~visit.pruned) =>
           \A r \in RuleIds :
               Count(Invoked, r) = IF r \in ActiveAt(visit.node) THEN 0
                                   ELSE Count(RegisteredFor(ruleset, visit.node), r)
    /\ (pc = "idle" /\ lastOp = "Process") =>
           \A n \in Nodes : \A r \in RuleIds :
               Count(CallIssues, [rule |-> r, node |-> n]) =
                   IF n \in walked /\ r \notin ActiveAt(n) /\ Match(r, n).issue
                   THEN Count(RegisteredFor(ruleset, n), r) ELSE 0

\* scenario A: G101 is registered for calls and G102 for calls and binary
\* expressions; the call 2 is annotated with G101 and the binary expression 3
\* in it has no annotation; 3 has just been entered
C17_Witness ==
    /\ Entered(3)
    /\ ~ignoreNosec
    /\ Count(ruleset["Call"], G101) = 1 /\ Count(ruleset["Binary"], G102) = 1
    /\ Match(G101, 2).issue
    /\ Count(CallIssues, [rule |-> G101, node |-> 2]) = 0
    /\ Count(CallIssues, [rule |-> G102, node |-> 3]) = 1
    /\ Invoked = <<G102>>

(***************************************************************************)
(* C18: pushes and pops of context.Ignores are balanced over a walk.       *)
(* During a walk the stack holds exactly one frame for each entered node   *)
(* whose Visit(nil) is still to come (a pruned node has none), so the      *)
(* frame of a node is popped when its children are exhausted and the stack *)
(* is empty when the root has been left; outside a walk, and so at the     *)
(* start of every file of a Process call, the stack is empty.              *)
(***************************************************************************)
C18_PushesAndPopsBalanced ==
    /\ pc = "walk" => Len(context.Ignores) = Count(todo, Nil)
    /\ pc # "walk" => context.Ignores = <<>>
    /\ (pc = "walk" /\ visit.node # Nil) =>
           Len(context.Ignores) =
               Cardinality(Ancestors(visit.node)) + (IF visit.pruned THEN 0 ELSE 1)

\* b has been walked, with frames pushed for its annotated nodes 8 and 9 and
\* node 10 pruned, and a is about to be walked: the stack is empty
C18_Witness ==
    /\ pc = "files" /\ files = <<"a">>
    /\ ~ignoreNosec
    /\ {7, 8, 9, 11, 12} \subseteq walked /\ 10 \notin walked
    /\ stats.NumNosec > stats0.NumNosec
    /\ context.Ignores = <<>>

(***************************************************************************)
(* C19: a directive is scoped to the subtree of its node.  When a node has *)
(* just been entered, the frames under its own are those of its ancestors, *)
(* unchanged by the push; and when a node M is about to be entered, as a   *)
(* first child or after an earlier sibling N and N's subtree were left,    *)
(* the stack is again the one of M's parent: the exclusions named on N are *)
(* on no frame any more and do not apply to M.                             *)
(***************************************************************************)
\* the frames of the path from N up to the root, each the active set of its node
RECURSIVE PathSetsFrom(_, _)
PathSetsFrom(off, n) ==
    IF n = Nil THEN <<>>
    ELSE <<ActiveTable[off][n]>> \o PathSetsFrom(off, Parent(n))

PathSetsTable == [off \in BOOLEAN |-> [n \in Nodes \cup {Nil} |-> PathSetsFrom(off, n)]]

PathSets(n) == PathSetsTable[ignoreNosec][n]

C19_DirectiveScopedToSubtree ==
    /\ (pc = "walk" /\ visit.node # Nil /\ ~visit.pruned) =>
           /\ context.Ignores[1] = ActiveAt(visit.node)
           /\ Tail(context.Ignores) = PathSets(Parent(visit.node))
    /\ (pc = "walk" /\ todo # <<>> /\ Head(todo) # Nil) =>
           context.Ignores = PathSets(Parent(Head(todo)))

\* node 4 is about to be entered after its sibling 2, annotated with G101, and
\* 2's child were entered and left: the stack is the root's frame alone
C19_Witness ==
    /\ pc = "walk" /\ todo # <<>> /\ Head(todo) = 4
    /\ ~ignoreNosec
    /\ {2, 3} \subseteq walked
    /\ ActiveAt(2) = {G101}
    /\ visit = NoVisit
    /\ context.Ignores = <<{}>>

(***************************************************************************)
(* C20: in an analyzer built from a configuration whose global nosec       *)
(* option is enabled, directives have no effect: every visited node        *)
(* evaluates to no exclusions and excludeAll false, so no node is pruned,  *)
(* every frame of the stack is empty, every rule registered for the type   *)
(* of a visited node is dispatched at it, every node of every walked file  *)
(* is entered, and the suppressions metric stays at zero.                  *)
(***************************************************************************)
C20_GlobalNosecDisablesDirectives ==
    config = "enabled" =>
        /\ ignoreNosec
        /\ stats.NumNosec = 0
        /\ ignored = <<>>
        /\ ~visit.pruned
        /\ \A i \in 1..Len(context.Ignores) : context.Ignores[i] = {}
        /\ visit.node # Nil =>
               /\ visit.node \in walked
               /\ Len(Invoked) = Len(RegisteredFor(ruleset, visit.node))
               /\ \A k \in 1..Len(Invoked) :
                      Invoked[k] = RegisteredFor(ruleset, visit.node)[k]
        /\ (pc = "idle" /\ ret = "nil") =>
               walked = {n \in Nodes : FileOf(n) \in FilesOf(callPaths)}

\* with the option enabled, node 6 (annotated with G101, under node 5 which
\* carries a bare marker) has been entered and G102 dispatched at it
C20_Witness ==
    /\ config = "enabled"
    /\ Entered(6)
    /\ 5 \in walked
    /\ Tree[5].groups = <<Marker>>
    /\ Invoked # <<>>
    /\ Invoked = RegisteredFor(ruleset, 6)
    /\ stats.NumNosec = 0

====
